---- MODULE Spec2Model ----
(***************************************************************************)
(* Model of the fireplan_alarm_divera relay: the /submit web handler        *)
(* (web_server.rs), the extractor (parser.rs), the receive loop with its   *)
(* known_rics filter (main.rs) and the Fireplan token cache and alarm      *)
(* submission (fireplan.rs).                                               *)
(*                                                                         *)
(* Strings are sequences of symbols (words); "contains" is the contiguous  *)
(* sub-sequence test, so that substring relations between rule texts are   *)
(* real.  RIC codes are sequences of digits, padded as format!("{:0>7}").  *)
(* Time is counted in minutes; an Instant is kept as its elapsed() value.  *)
(***************************************************************************)
EXTENDS Integers, Sequences, FiniteSets, TLC

\* ------------------------------------------------------------------ bounds
\* number of /submit requests the web server receives in one run
MaxRequests == 2
\* the age of a cache entry is not followed beyond this (minutes)
MaxElapsed == 30

\* ------------------------------------------------------- program constants
\* fireplan.rs:36  TOKEN_TTL = 30 * 60 seconds, in minutes
TOKEN_TTL == 30
\* parser.rs:103  width of format!("{:0>7}")
RicWidth == 7

\* minutes that pass in one Tick: half the lifetime of a token, so that ages
\* below, at and above TOKEN_TTL all occur
TickStep == TOKEN_TTL \div 2

\* ------------------------------------------------------------- state
VARIABLES
    configuration,  \* the Configuration main read at start
    requests,       \* number of /submit requests handled so far
    lastResp,       \* what the last /submit request got
    queue,          \* the event channel, FIFO
    shutdownSent,   \* a Shutdown event was enqueued
    tasks,          \* extractor runs handed to workers and not finished
    loopPc,         \* where the receive loop of main is
    data,           \* the ParsedData the loop is working on
    known_rics,     \* main.rs:307
    TOKEN_CACHE,    \* fireplan.rs:35  standort -> (token, elapsed time of its Instant)
    cacheLock,      \* TRUE while the TOKEN_CACHE mutex is held
    api_token,      \* the token submit holds, 0 when it has none
    ricIdx,         \* position of submit's for loop in data.rics
    tokensIssued,   \* tokens the credential endpoint has handed out
    posts,          \* alarm POSTs issued so far, in order
    submitted,      \* lines of /root/fireplan_alarm_divera_submitted
    triggers,       \* ids of the events the trigger command was run for
    triggerOk,      \* result of the last run of the trigger command
    claims,         \* what every claim so far returned
    call,           \* bookkeeping of the current (last) submit call
    handed,         \* the last token get_api_token returned and its age then
    okPosts,        \* number of POSTs answered with a success status
    appendErrors,   \* number of appends to the submitted file that failed
    processed,      \* ids of the Normalized events the loop has finished
    panics,         \* ids of the submissions whose extractor run panicked
    runs            \* the extractor runs that returned, in order: event id,
                    \* input, record

vars == <<configuration, requests, lastResp, queue, shutdownSent, tasks, loopPc,
          data, known_rics, TOKEN_CACHE, cacheLock, api_token, ricIdx, tokensIssued,
          posts, submitted, triggers, triggerOk, claims, okPosts, call, handed,
          processed, panics, runs, appendErrors>>

\* ---------------------------------------------------------------- strings
\* str::contains: pat occurs as a contiguous sub-sequence of s
Contains(s, pat) ==
    \E i \in 0..(Len(s) - Len(pat)) : SubSeq(s, i + 1, i + Len(pat)) = pat

\* format!("{:0>7}", ric): left-pad with zeros to 7, longer codes unchanged
RECURSIVE Pad7(_)
Pad7(code) == IF Len(code) >= RicWidth THEN code ELSE Pad7(<<0>> \o code)

\* str::split(','): the segments between the commas (always at least one)
RECURSIVE SplitComma(_)
SplitComma(s) ==
    IF \E i \in 1..Len(s) : s[i] = ","
    THEN LET i == CHOOSE k \in 1..Len(s) : s[k] = "," /\ \A j \in 1..(k - 1) : s[j] # ","
         IN  <<SubSeq(s, 1, i - 1)>> \o SplitComma(SubSeq(s, i + 1, Len(s)))
    ELSE <<s>>

\* body.find("Einsatzmittel:") and the slice after it, "" when absent
RicsSource(body) ==
    IF \E i \in 1..Len(body) : body[i] = "Einsatzmittel:"
    THEN LET i == CHOOSE k \in 1..Len(body) :
                     body[k] = "Einsatzmittel:" /\ \A j \in 1..(k - 1) : body[j] # "Einsatzmittel:"
         IN  SubSeq(body, i + 1, Len(body))
    ELSE <<>>

\* temp_lines.retain(|x| !ric.text.contains(x.text)) (parser.rs:99)
SelectSeqNotContainedIn(lines, text) ==
    SelectSeq(lines, LAMBDA x : ~Contains(text, x.text))

\* the inner loop over configuration.rics for one token (parser.rs:94-110)
RECURSIVE MatchToken(_, _, _, _)
MatchToken(token, rics, k, temp_lines) ==
    IF k > Len(rics) THEN temp_lines
    ELSE IF Contains(token, rics[k].text)
         THEN MatchToken(token, rics, k + 1,
                  Append(SelectSeqNotContainedIn(temp_lines, rics[k].text),
                         [text |-> rics[k].text, ric |-> Pad7(rics[k].ric),
                          subric |-> rics[k].subric]))
         ELSE MatchToken(token, rics, k + 1, temp_lines)

\* the first loop over the tokens (parser.rs:93-112)
RECURSIVE MatchAll(_, _, _)
MatchAll(tokens, rics, k) ==
    IF k > Len(tokens) THEN <<>>
    ELSE MatchToken(tokens[k], rics, 1, <<>>) \o MatchAll(tokens, rics, k + 1)

Digit(n) == <<"1", "2", "3", "4">>[n]

\* abt1_dummy_ric .. abt4_dummy_ric (parser.rs:69-91)
abt_dummy_ric(n) ==
    [text |-> <<"Dummy", "Abt", Digit(n)>>, ric |-> <<0, 9, 9, 9, 9, 9, n>>, subric |-> "B"]

\* kdow_dummy_ric (parser.rs:115-119)
kdow_dummy_ric ==
    [text |-> <<"Dummy", "KdoW">>, ric |-> <<0, 9, 9, 9, 9, 9, 5>>, subric |-> "B"]

\* the literals "UW 1/" .. "UW 4/"
UWMarker(n) == <<"UW", Digit(n), "/">>

\* Vec::contains
InSeq(x, s) == \E i \in 1..Len(s) : s[i] = x

\* the marker tests pushing without the contains test
RECURSIVE AbtTokenNoDedup(_, _, _)
AbtTokenNoDedup(token, n, acc) ==
    IF n > 4 THEN acc
    ELSE AbtTokenNoDedup(token, n + 1,
             IF Contains(token, UWMarker(n))
             THEN Append(acc, abt_dummy_ric(n)) ELSE acc)

\* the four marker tests for one token (parser.rs:125-147)
RECURSIVE AbtToken(_, _, _)
AbtToken(token, n, acc) ==
    IF n > 4 THEN acc
    ELSE AbtToken(token, n + 1,
             IF Contains(token, UWMarker(n)) /\ ~InSeq(abt_dummy_ric(n), acc)
             THEN Append(acc, abt_dummy_ric(n)) ELSE acc)

\* the second loop over the tokens (parser.rs:124-148)
RECURSIVE AbtAll(_, _, _)
AbtAll(tokens, k, acc) ==
    IF k > Len(tokens) THEN acc
    ELSE AbtAll(tokens, k + 1, AbtToken(tokens[k], 1, acc))

\* result.rics without the push of kdow_dummy_ric
ParseRicsNoKdow(body, rics) ==
    LET tokens == SplitComma(RicsSource(body))
    IN  AbtAll(tokens, 1, MatchAll(tokens, rics, 1))

\* result.rics of parse (parser.rs:61-148)
ParseRics(body, rics) ==
    LET tokens == SplitComma(RicsSource(body))
    IN  AbtAll(tokens, 1, Append(MatchAll(tokens, rics, 1), kdow_dummy_ric))

\* str::lines() after replace('\r', ""): the pieces between "\n" symbols;
\* a trailing empty piece is not a line
RECURSIVE Lines(_)
Lines(s) ==
    IF s = <<>> THEN <<>>
    ELSE IF \E i \in 1..Len(s) : s[i] = "\n"
         THEN LET i == CHOOSE k \in 1..Len(s) : s[k] = "\n" /\ \A j \in 1..(k - 1) : s[j] # "\n"
              IN  <<SubSeq(s, 1, i - 1)>> \o Lines(SubSeq(s, i + 1, Len(s)))
         ELSE <<s>>

\* data.text.replace('\r', "")
StripCR(s) == SelectSeq(s, LAMBDA c : c # "\r")

\* str::trim on symbol sequences: leading and trailing " " removed
RECURSIVE Trim(_)
Trim(s) ==
    IF s = <<>> THEN s
    ELSE IF Head(s) = " " THEN Trim(Tail(s))
    ELSE IF s[Len(s)] = " " THEN Trim(SubSeq(s, 1, Len(s) - 1))
    ELSE s

\* A configured field pattern: valid says whether Regex::new accepts it; a
\* valid pattern is "<key>(.*)", or "<key>" alone when group is FALSE: it
\* matches a line that contains the key symbol, and group 1 (when the pattern
\* has one) is the rest of the line after the first key.
Captures(re, line) ==
    IF \E i \in 1..Len(line) : line[i] = re.key
    THEN LET i == CHOOSE k \in 1..Len(line) :
                     line[k] = re.key /\ \A j \in 1..(k - 1) : line[j] # re.key
         IN  <<SubSeq(line, i + 1, Len(line))>>
    ELSE <<>>

\* caps[1] on a match of a pattern that has no group 1: Captures::index
\* panics (parser.rs:32, 42, 52)
CapsPanics(re, line) ==
    re.valid /\ ~re.group /\ \E i \in 1..Len(line) : line[i] = re.key

\* one field over all lines where only the first matching line assigns
RECURSIVE FieldOfFirst(_, _, _, _)
FieldOfFirst(re, lines, k, cur) ==
    IF k > Len(lines) THEN cur
    ELSE IF re.valid /\ Captures(re, lines[k]) # <<>>
         THEN Captures(re, lines[k])[1]
         ELSE FieldOfFirst(re, lines, k + 1, cur)

\* one field over all lines: every matching line overwrites (parser.rs:26-59)
RECURSIVE FieldOf(_, _, _, _)
FieldOf(re, lines, k, cur) ==
    IF k > Len(lines) THEN cur
    ELSE FieldOf(re, lines, k + 1,
             IF re.valid /\ Captures(re, lines[k]) # <<>>
             THEN Captures(re, lines[k])[1] ELSE cur)

\* a parse that remembers what was registered and leaves those rics out
parseHiddenState(payload, conf) ==
    LET body == StripCR(payload.text)
    IN  [rics             |-> SelectSeq(ParseRics(body, conf.rics),
                                  LAMBDA r : <<payload.foreign_id, r.ric>> \notin known_rics),
         einsatznrlst     |-> payload.foreign_id,
         ort              |-> Trim(FieldOf(conf.regex_ort, Lines(body), 1, <<>>)),
         ortsteil         |-> Trim(FieldOf(conf.regex_ortsteil, Lines(body), 1, <<>>)),
         objektname       |-> Trim(FieldOf(conf.regex_objektname, Lines(body), 1, <<>>)),
         einsatzstichwort |-> Trim(payload.title)]

\* parse (parser.rs:6-215), the fields the pipeline uses
parse(payload, conf) ==
    LET body == StripCR(payload.text)
    IN  [rics             |-> ParseRics(body, conf.rics),
         einsatznrlst     |-> payload.foreign_id,
         ort              |-> Trim(FieldOf(conf.regex_ort, Lines(body), 1, <<>>)),
         ortsteil         |-> Trim(FieldOf(conf.regex_ortsteil, Lines(body), 1, <<>>)),
         objektname       |-> Trim(FieldOf(conf.regex_objektname, Lines(body), 1, <<>>)),
         einsatzstichwort |-> Trim(payload.title)]

\* parse does not return: some line makes caps[1] panic (parser.rs:26-59)
ParsePanics(payload, conf) ==
    \E k \in 1..Len(Lines(StripCR(payload.text))) :
        LET line == Lines(StripCR(payload.text))[k] IN
        \/ CapsPanics(conf.regex_ort, line)
        \/ CapsPanics(conf.regex_ortsteil, line)
        \/ CapsPanics(conf.regex_objektname, line)

\* does parse log "regex_... is not a proper regular expression"
ParseLogsRegexError(payload, conf) ==
    /\ Lines(StripCR(payload.text)) # <<>>
    /\ \/ ~conf.regex_ort.valid
       \/ ~conf.regex_ortsteil.valid
       \/ ~conf.regex_objektname.valid

\* ------------------------------------------------------------ inputs
\* configuration.rics: the rule table.  "Florian X" is contained in
\* "Florian X 1"; "LF" carries the same code as "Florian X 1" on another
\* sub-channel.
ConfigRics ==
    << [text |-> <<"Florian", "X">>,      ric |-> <<4, 2>>, subric |-> "A"],
       [text |-> <<"Florian", "X", "1">>, ric |-> <<4, 3>>, subric |-> "A"],
       [text |-> <<"LF">>,                ric |-> <<4, 3>>, subric |-> "B"] >>

GoodRe(k) == [valid |-> TRUE, key |-> k, group |-> TRUE]
BadRe(k) == [valid |-> FALSE, key |-> k, group |-> FALSE]
\* a pattern Regex::new accepts that has no capture group
NoGroupRe(k) == [valid |-> TRUE, key |-> k, group |-> FALSE]

\* the configurations a run can start with (read once in main, main.rs:264-265)
Configurations ==
    { [rics |-> ConfigRics, regex_ort |-> GoodRe("Ort:"), regex_ortsteil |-> GoodRe("Ortsteil:"),
       regex_objektname |-> GoodRe("Objekt:"), simple_trigger |-> FALSE],
      [rics |-> ConfigRics, regex_ort |-> BadRe("Ort:"), regex_ortsteil |-> GoodRe("Ortsteil:"),
       regex_objektname |-> GoodRe("Objekt:"), simple_trigger |-> TRUE],
      [rics |-> ConfigRics, regex_ort |-> NoGroupRe("Ort:"), regex_ortsteil |-> GoodRe("Ortsteil:"),
       regex_objektname |-> GoodRe("Objekt:"), simple_trigger |-> FALSE] }

\* the rule table in every order
RuleOrders ==
    {[k \in 1..Len(ConfigRics) |-> ConfigRics[p[k]]] : p \in Permutations(1..Len(ConfigRics))}

\* configurations with the rule table in some order and a city pattern of
\* each kind
ExtractConfigurations ==
    {[rics |-> t, regex_ort |-> re, regex_ortsteil |-> GoodRe("Ortsteil:"),
      regex_objektname |-> GoodRe("Objekt:"), simple_trigger |-> FALSE] :
        t \in RuleOrders, re \in {GoodRe("Ort:"), BadRe("Ort:"), NoGroupRe("Ort:")}}

\* the payloads a client sends
Payloads ==
    { [foreign_id |-> "E1", title |-> <<"F2", " ">>,
       text |-> <<"Ort:", "A", "\r", "\n", "Einsatzmittel:", "LF", ",", "Florian", "X", "1">>],
      [foreign_id |-> "E1", title |-> <<"F2">>,
       text |-> <<"Einsatzmittel:", "UW", "1", "/", "1">>],
      [foreign_id |-> "E2", title |-> <<"H1">>,
       text |-> <<"Ort:", " ", "B">>] }

\* further payloads for the extractor: a group marker in two segments and
\* one next to a rule text; two lines for the city, one for the district and
\* a marker in a text without vehicle list; a marker before the vehicle list
ExtractPayloads ==
    Payloads \cup
    { [foreign_id |-> "E3", title |-> <<"B1">>,
       text |-> <<"Einsatzmittel:", "UW", "1", "/", "1", ",", "UW", "1", "/", "2", ",",
                  "Florian", "X", "1", "UW", "3", "/">>],
      [foreign_id |-> "E4", title |-> <<" ", "T1">>,
       text |-> <<"Ort:", "A", "\n", "Ort:", " ", "B", " ", "\n",
                  "Ortsteil:", "N", "\r", "\n", "UW", "2", "/">>],
      [foreign_id |-> "E5", title |-> <<"H2">>,
       text |-> <<"UW", "4", "/", "\n", "Einsatzmittel:", "LF">>] }

\* parse on every configuration and payload, evaluated once: the record it
\* returns and whether it panics instead
ParseTable ==
    [conf \in Configurations \cup ExtractConfigurations |->
        [payload \in ExtractPayloads |-> parse(payload, conf)]]

PanicsTable ==
    [conf \in Configurations \cup ExtractConfigurations |->
        [payload \in ExtractPayloads |-> ParsePanics(payload, conf)]]

\* a request body: json says whether serde_json::from_slice accepts it
NoPayload == [foreign_id |-> "", title |-> <<>>, text |-> <<>>]
Bodies == {[json |-> TRUE, payload |-> p] : p \in Payloads}
              \cup {[json |-> FALSE, payload |-> NoPayload]}
ExtractBodies == {[json |-> TRUE, payload |-> p] : p \in ExtractPayloads}

\* state.auth_token and the tokens a client may send in ?token=
AuthToken == "secret"
QueryTokens == {"secret", "wrong"}

\* the site main submits for (main.rs:324)
Standort == "Verwaltung"

FetchOutcomes == {"ok", "transport", "status", "body", "parse"}
PostOutcomes == {"ok", "ok_notext", "status", "status_notext", "transport"}

\* no ParsedData in hand; event ids start at 1
NoData == [id |-> 0, rics |-> <<>>, einsatznrlst |-> "", ort |-> <<>>, ortsteil |-> <<>>,
           objektname |-> <<>>, einsatzstichwort |-> <<>>]

\* an absent TOKEN_CACHE entry; tokens are numbered from 1
NoEntry == [present |-> FALSE, tok |-> 0, elapsed |-> 0]

\* one submit call: the rics it was given, its calls of get_api_token, the
\* cache entry get_api_token found, the GETs it sent, the lengths of posts
\* and submitted when it began, what get_api_token returned ("pending",
\* "some" or "none"), and whether one of its POSTs carried a token that was
\* TOKEN_TTL old or older
NoCall == [id |-> 0, targets |-> <<>>, lookups |-> 0, cached |-> NoEntry, fetches |-> 0,
           postsAt |-> 0, logAt |-> 0, result |-> "pending", agedPost |-> FALSE]

\* everything but the configuration: nothing received, nothing registered,
\* nothing cached, the loop about to call rx.recv()
InitState ==
    /\ requests = 0
    /\ lastResp = [token |-> "", json |-> FALSE, status |-> 0, sent |-> 0]
    /\ queue = <<>>
    /\ shutdownSent = FALSE
    /\ tasks = {}
    /\ loopPc = "recv"
    /\ data = NoData
    /\ known_rics = {}
    /\ TOKEN_CACHE = [s \in {Standort} |-> NoEntry]
    /\ cacheLock = FALSE
    /\ api_token = 0
    /\ ricIdx = 0
    /\ tokensIssued = 0
    /\ posts = <<>>
    /\ submitted = <<>>
    /\ triggers = <<>>
    /\ triggerOk = TRUE
    /\ claims = <<>>
    /\ call = NoCall
    /\ handed = [tok |-> 0, elapsed |-> 0]
    /\ processed = {}
    /\ okPosts = 0
    /\ appendErrors = 0
    /\ panics = {}
    /\ runs = <<>>

Init ==
    /\ configuration \in Configurations
    /\ InitState

\* ------------------------------------------------------ the web handler
\* submit deserializing the body before it looks at the token
SubmitResponseBodyFirst(token, body) ==
    IF ~body.json THEN [status |-> 400, send |-> FALSE]
    ELSE IF token # AuthToken THEN [status |-> 401, send |-> FALSE]
    ELSE [status |-> 200, send |-> TRUE]

\* submit answering 200 and sending the event without deserializing the body
SubmitResponseNoParse(token, body) ==
    IF token # AuthToken THEN [status |-> 401, send |-> FALSE]
    ELSE [status |-> 200, send |-> TRUE]

\* submit (web_server.rs:202-249): the status and whether an event is sent
SubmitResponse(token, body) ==
    IF token # AuthToken THEN [status |-> 401, send |-> FALSE]
    ELSE IF body.json THEN [status |-> 200, send |-> TRUE]
    ELSE [status |-> 400, send |-> FALSE]

\* crate::send_event: the event joins the end of the event queue
send_event(q, ev) == Append(q, ev)

\* the handler on a request whose body is one of bodies
submit(bodies) ==
    /\ requests < MaxRequests
    /\ \E token \in QueryTokens, body \in bodies :
         LET r == SubmitResponse(token, body) IN
         /\ requests' = requests + 1
         /\ lastResp' = [token |-> token, json |-> body.json, status |-> r.status,
                         sent |-> IF r.send THEN 1 ELSE 0]
         /\ queue' = IF r.send
                     THEN send_event(queue, [kind |-> "Submit", id |-> requests + 1,
                                             payload |-> body.payload])
                     ELSE queue
    /\ UNCHANGED <<configuration, appendErrors, panics, runs, shutdownSent, tasks, loopPc, data, known_rics,
                   TOKEN_CACHE, cacheLock, api_token, ricIdx, tokensIssued, posts,
                   submitted, triggers, claims, call, handed, processed, okPosts, triggerOk>>

HttpSubmit == submit(Bodies)

\* a Shutdown event is enqueued (once)
EnqueueShutdown ==
    /\ ~shutdownSent
    /\ shutdownSent' = TRUE
    /\ queue' = send_event(queue, [kind |-> "Shutdown"])
    /\ UNCHANGED <<configuration, appendErrors, panics, runs, requests, lastResp, tasks, loopPc, data, known_rics,
                   TOKEN_CACHE, cacheLock, api_token, ricIdx, tokensIssued, posts,
                   submitted, triggers, claims, call, handed, processed, okPosts, triggerOk>>

\* --------------------------------------------------- the receive loop
\* a loop that ignores Shutdown and receives again
AfterShutdownIgnore == "recv"

\* where the loop goes when it receives Shutdown
AfterShutdown == "exited"

\* rx.recv() returns the Shutdown event: the loop ends
RecvShutdown ==
    /\ loopPc = "recv"
    /\ queue # <<>>
    /\ Head(queue).kind = "Shutdown"
    /\ queue' = Tail(queue)
    /\ loopPc' = AfterShutdown
    /\ UNCHANGED <<configuration, appendErrors, panics, runs, requests, lastResp, shutdownSent, tasks, data,
                   known_rics, TOKEN_CACHE, cacheLock, api_token, ricIdx, tokensIssued,
                   posts, submitted, triggers, claims, call, handed, processed, okPosts, triggerOk>>

\* rx.recv() returns a raw submission: the extractor run is handed to a worker
RecvSubmit ==
    /\ loopPc = "recv"
    /\ queue # <<>>
    /\ Head(queue).kind = "Submit"
    /\ queue' = Tail(queue)
    /\ tasks' = tasks \cup {[id |-> Head(queue).id, payload |-> Head(queue).payload]}
    /\ UNCHANGED <<configuration, appendErrors, panics, runs, requests, lastResp, shutdownSent, loopPc, data,
                   known_rics, TOKEN_CACHE, cacheLock, api_token, ricIdx, tokensIssued,
                   posts, submitted, triggers, claims, call, handed, processed, okPosts, triggerOk>>

\* a worker runs parse and pushes the record as a Normalized event; when
\* parse panics the run ends without a record
ExtractTask ==
    /\ \E t \in tasks :
         /\ tasks' = tasks \ {t}
         /\ IF PanicsTable[configuration][t.payload]
            THEN /\ panics' = panics \cup {t.id}
                 /\ UNCHANGED <<queue, runs>>
            ELSE LET result == ParseTable[configuration][t.payload] IN
                 /\ queue' = send_event(queue, [kind |-> "Parsed", id |-> t.id,
                                                data |-> result])
                 /\ runs' = Append(runs, [id |-> t.id, payload |-> t.payload,
                                          record |-> result])
                 /\ UNCHANGED panics
    /\ UNCHANGED <<configuration, appendErrors, requests, lastResp, shutdownSent, loopPc, data,
                   known_rics, TOKEN_CACHE, cacheLock, api_token, ricIdx, tokensIssued,
                   posts, submitted, triggers, claims, call, handed, processed, okPosts, triggerOk>>

\* rx.recv() returns Ok(data) (main.rs:310-311)
RecvParsed ==
    /\ loopPc = "recv"
    /\ queue # <<>>
    /\ Head(queue).kind = "Parsed"
    /\ queue' = Tail(queue)
    /\ data' = [id |-> Head(queue).id] @@ Head(queue).data
    /\ loopPc' = "claim"
    /\ UNCHANGED <<configuration, appendErrors, panics, runs, requests, lastResp, shutdownSent, tasks,
                   known_rics, TOKEN_CACHE, cacheLock, api_token, ricIdx, tokensIssued,
                   posts, submitted, triggers, claims, call, handed, processed, okPosts, triggerOk>>

\* ClaimLoop without known_rics.insert: every ric is taken as new
RECURSIVE ClaimLoopNoInsert(_, _, _, _, _)
ClaimLoopNoInsert(known, nr, rics, k, alarmier_rics) ==
    IF k > Len(rics) THEN [known |-> known, alarmier_rics |-> alarmier_rics]
    ELSE IF <<nr, rics[k].ric>> \notin known
         THEN ClaimLoopNoInsert(known, nr, rics, k + 1, Append(alarmier_rics, rics[k]))
         ELSE ClaimLoopNoInsert(known, nr, rics, k + 1, alarmier_rics)

\* the for loop over data.rics (main.rs:312-318): the set and the new list
RECURSIVE ClaimLoop(_, _, _, _, _)
ClaimLoop(known, nr, rics, k, alarmier_rics) ==
    IF k > Len(rics) THEN [known |-> known, alarmier_rics |-> alarmier_rics]
    ELSE IF <<nr, rics[k].ric>> \notin known
         THEN ClaimLoop(known \cup {<<nr, rics[k].ric>>}, nr, rics, k + 1,
                        Append(alarmier_rics, rics[k]))
         ELSE ClaimLoop(known, nr, rics, k + 1, alarmier_rics)

\* known_rics created anew for every received record
KnownBeforeReset(known) == {}

\* known_rics lives outside the loop (main.rs:307): a claim starts from it
KnownBefore(known) == known

\* a test that never finds the list empty
is_empty_never(alarmier_rics) == FALSE

\* alarmier_rics.is_empty() (main.rs:319)
is_empty(alarmier_rics) == alarmier_rics = <<>>

\* main.rs:312-323: filter, then either warn or go on to fireplan::submit
Claim ==
    /\ loopPc = "claim"
    /\ LET r == ClaimLoop(KnownBefore(known_rics), data.einsatznrlst, data.rics, 1, <<>>) IN
       /\ known_rics' = r.known
       /\ claims' = Append(claims, [id |-> data.id, einsatznrlst |-> data.einsatznrlst,
                                    record |-> data.rics, rics |-> r.alarmier_rics])
       /\ IF is_empty(r.alarmier_rics)
          THEN /\ loopPc' = "recv"
               /\ data' = NoData
               /\ processed' = processed \cup {data.id}
               /\ UNCHANGED call
          ELSE /\ loopPc' = "lookup"
               /\ data' = [data EXCEPT !.rics = r.alarmier_rics]
               /\ call' = [NoCall EXCEPT !.id = data.id, !.targets = r.alarmier_rics,
                                         !.postsAt = Len(posts), !.logAt = Len(submitted)]
               /\ UNCHANGED processed
    /\ UNCHANGED <<configuration, appendErrors, panics, runs, requests, lastResp, queue, shutdownSent, tasks,
                   TOKEN_CACHE, cacheLock, api_token, ricIdx, tokensIssued, posts,
                   submitted, triggers, handed, okPosts, triggerOk>>

\* ------------------------------------------- fireplan.rs: get_api_token
\* the age test turned around
FreshInverted(entry) == entry.present /\ entry.elapsed > TOKEN_TTL

\* the age test with <= instead of <
FreshInclusive(entry) == entry.present /\ entry.elapsed <= TOKEN_TTL

\* ts.elapsed() < TOKEN_TTL on a present entry (fireplan.rs:41-42)
Fresh(entry) == entry.present /\ entry.elapsed < TOKEN_TTL

\* TOKEN_CACHE.lock() for the lookup (fireplan.rs:40)
LockLookup ==
    /\ loopPc = "lookup"
    /\ ~cacheLock
    /\ cacheLock' = TRUE
    /\ loopPc' = "lookup_locked"
    /\ UNCHANGED <<configuration, appendErrors, panics, runs, requests, lastResp, queue, shutdownSent, tasks, data,
                   known_rics, TOKEN_CACHE, api_token, ricIdx, tokensIssued, posts,
                   submitted, triggers, claims, call, handed, processed, okPosts, triggerOk>>

\* a guard that lives on after the lookup block
LockAfterLookupHeld == TRUE

\* the state of the TOKEN_CACHE mutex after the lookup: the guard `cache` is
\* dropped at the return or at the end of the if let (fireplan.rs:44-47)
LockAfterLookup == FALSE

\* the lookup under the lock; the guard is dropped at the end of the block
\* (fireplan.rs:41-47).  A fresh entry is returned to submit (fireplan.rs:44,
\* 108-109), otherwise the GET is sent (fireplan.rs:50-57).
Lookup ==
    /\ loopPc = "lookup_locked"
    /\ cacheLock' = LockAfterLookup
    /\ LET entry == TOKEN_CACHE[Standort] IN
       IF Fresh(entry)
       THEN /\ api_token' = entry.tok
            /\ handed' = [tok |-> entry.tok, elapsed |-> entry.elapsed]
            /\ call' = [call EXCEPT !.lookups = @ + 1, !.cached = entry, !.result = "some"]
            /\ ricIdx' = 1
            /\ loopPc' = "post"
       ELSE /\ call' = [call EXCEPT !.lookups = @ + 1, !.cached = entry]
            /\ loopPc' = "fetch"
            /\ UNCHANGED <<api_token, handed, ricIdx>>
    /\ UNCHANGED <<configuration, appendErrors, panics, runs, requests, lastResp, queue, shutdownSent, tasks, data,
                   known_rics, TOKEN_CACHE, tokensIssued, posts, submitted, triggers,
                   claims, processed, okPosts, triggerOk>>

\* main going back to rx.recv() without the trigger when submit got no token
AfterFetchFailSkip == "recv"

\* get_api_token trying the GET again after a failure
AfterFetchFailRetry == "fetch"

\* where main is after get_api_token returned None: submit returns
\* (fireplan.rs:110) and main goes on to the trigger (main.rs:325)
AfterFetchFail == "trigger"

\* a failed fetch that throws the entry of the site away
CacheEvictedAfterFailedFetch(cache, standort) == [cache EXCEPT ![standort] = NoEntry]

\* TOKEN_CACHE after a failed fetch: every error arm logs and returns None
\* without taking the lock (fireplan.rs:63-66, 68-75, 77-80, 87-90)
CacheAfterFailedFetch(cache, standort) == cache

\* the answer to the GET (fireplan.rs:57-91): a token, or one of the
\* failures (transport error, status, unreadable body, JSON that does not
\* parse), each logged and answered with None
Fetch ==
    /\ loopPc = "fetch"
    /\ \E outcome \in FetchOutcomes :
         IF outcome = "ok"
         THEN /\ tokensIssued' = tokensIssued + 1
              /\ call' = [call EXCEPT !.fetches = @ + 1]
              /\ loopPc' = "store"
              /\ UNCHANGED TOKEN_CACHE
         ELSE /\ call' = [call EXCEPT !.fetches = @ + 1, !.result = "none"]
              /\ loopPc' = AfterFetchFail
              /\ TOKEN_CACHE' = CacheAfterFailedFetch(TOKEN_CACHE, Standort)
              /\ UNCHANGED tokensIssued
    /\ UNCHANGED <<configuration, appendErrors, panics, runs, requests, lastResp, queue, shutdownSent, tasks, data,
                   known_rics, cacheLock, api_token, ricIdx, posts, submitted,
                   triggers, claims, handed, processed, okPosts, triggerOk>>

\* TOKEN_CACHE.lock() for the store (fireplan.rs:94)
LockStore ==
    /\ loopPc = "store"
    /\ ~cacheLock
    /\ cacheLock' = TRUE
    /\ loopPc' = "store_locked"
    /\ UNCHANGED <<configuration, appendErrors, panics, runs, requests, lastResp, queue, shutdownSent, tasks, data,
                   known_rics, TOKEN_CACHE, api_token, ricIdx, tokensIssued, posts,
                   submitted, triggers, claims, call, handed, processed, okPosts, triggerOk>>

\* cache.insert(standort, (utoken, Instant::now())) and Some(utoken)
\* (fireplan.rs:95-99)
Store ==
    /\ loopPc = "store_locked"
    /\ cacheLock' = FALSE
    /\ TOKEN_CACHE' = [TOKEN_CACHE EXCEPT
                         ![Standort] = [present |-> TRUE, tok |-> tokensIssued, elapsed |-> 0]]
    /\ api_token' = tokensIssued
    /\ handed' = [tok |-> tokensIssued, elapsed |-> 0]
    /\ call' = [call EXCEPT !.result = "some"]
    /\ ricIdx' = 1
    /\ loopPc' = "post"
    /\ UNCHANGED <<configuration, appendErrors, panics, runs, requests, lastResp, queue, shutdownSent, tasks, data,
                   known_rics, tokensIssued, posts, submitted, triggers, claims, processed, okPosts, triggerOk>>

\* ---------------------------------------------------- fireplan.rs: submit
PostOk(outcome) == outcome \in {"ok", "ok_notext"}

\* a submit that writes the line only after it has read the response text
AppendsLineAfterText(outcome) == outcome = "ok"

\* does submit append a line to the submitted file: on every success status,
\* before r.text() is looked at (fireplan.rs:139-157)
AppendsLine(outcome) == PostOk(outcome)

\* the for loop left at the first POST that fails
NextRicBreak(k, n, outcome) == IF PostOk(outcome) THEN k + 1 ELSE n + 1

\* the index of the for loop over n rics after the POST for ric k
\* (fireplan.rs:115; every arm falls through or continues)
NextRic(k, n, outcome) == k + 1

\* a submit that asks get_api_token again before every further POST
AfterPostRecheck == "lookup"

\* where submit is after a POST with rics left: in the next round of the for
\* loop, with the api_token of fireplan.rs:108 (fireplan.rs:115, 134)
AfterPost == "post"

\* one round of the for loop (fireplan.rs:115-188): the POST, and on success
\* the line appended to the submitted file; logOk is whether open and
\* write_all succeed (fireplan.rs:149-156)
Post ==
    /\ loopPc = "post"
    /\ ricIdx <= Len(data.rics)
    /\ \E outcome \in PostOutcomes :
       \E logOk \in (IF AppendsLine(outcome) THEN BOOLEAN ELSE {TRUE}) :
         /\ posts' = Append(posts, [id |-> data.id, einsatznrlst |-> data.einsatznrlst,
                                    ric |-> data.rics[ricIdx].ric,
                                    subRIC |-> data.rics[ricIdx].subric,
                                    token |-> api_token])
         /\ submitted' = IF AppendsLine(outcome) /\ logOk
                         THEN Append(submitted, [einsatznrlst |-> data.einsatznrlst,
                                                 einsatzstichwort |-> data.einsatzstichwort])
                         ELSE submitted
         /\ call' = [call EXCEPT !.agedPost = @ \/ ~Fresh(TOKEN_CACHE[Standort])]
         /\ okPosts' = IF PostOk(outcome) THEN okPosts + 1 ELSE okPosts
         /\ appendErrors' = IF AppendsLine(outcome) /\ ~logOk
                            THEN appendErrors + 1 ELSE appendErrors
         /\ ricIdx' = NextRic(ricIdx, Len(data.rics), outcome)
         /\ loopPc' = IF NextRic(ricIdx, Len(data.rics), outcome) > Len(data.rics)
                      THEN "trigger" ELSE AfterPost
    /\ UNCHANGED <<configuration, panics, runs, requests, lastResp, queue, shutdownSent, tasks, data,
                   known_rics, TOKEN_CACHE, cacheLock, api_token, tokensIssued, triggers,
                   claims, handed, processed, triggerOk>>

\* a failed trigger command ending the loop
AfterTriggerAbort(ok) == IF ok THEN "recv" ELSE "exited"

\* where the loop is after the trigger command (main.rs:327-330, 309)
AfterTrigger(ok) == "recv"

\* main.rs:325-331 and back to rx.recv()
Trigger ==
    /\ loopPc = "trigger"
    /\ IF configuration.simple_trigger
       THEN \E ok \in BOOLEAN :
              /\ triggers' = Append(triggers, data.id)
              /\ triggerOk' = ok
              /\ loopPc' = AfterTrigger(ok)
       ELSE /\ loopPc' = "recv"
            /\ UNCHANGED <<triggers, triggerOk>>
    /\ processed' = processed \cup {data.id}
    /\ data' = NoData
    /\ api_token' = 0
    /\ ricIdx' = 0
    /\ UNCHANGED <<configuration, appendErrors, panics, runs, requests, lastResp, queue, shutdownSent, tasks,
                   known_rics, TOKEN_CACHE, cacheLock, tokensIssued, posts, submitted,
                   claims, call, handed, okPosts>>

\* time passes while the loop waits: in recv, in a network call or in the
\* trigger command
Tick ==
    /\ loopPc \in {"recv", "fetch", "post", "trigger"}
    /\ \E s \in DOMAIN TOKEN_CACHE :
         TOKEN_CACHE[s].present /\ TOKEN_CACHE[s].elapsed + TickStep <= MaxElapsed
    /\ TOKEN_CACHE' = [s \in DOMAIN TOKEN_CACHE |->
                         IF TOKEN_CACHE[s].present
                         THEN [TOKEN_CACHE[s] EXCEPT !.elapsed = @ + TickStep]
                         ELSE TOKEN_CACHE[s]]
    /\ UNCHANGED <<configuration, appendErrors, panics, runs, requests, lastResp, queue, shutdownSent, tasks, loopPc,
                   data, known_rics, cacheLock, api_token, ricIdx,
                   tokensIssued, posts, submitted, triggers, claims, call, handed,
                   processed, okPosts, triggerOk>>

\* the relay as it runs: requests arrive, workers extract, the loop of main
\* filters and submits
Next ==
    \/ HttpSubmit
    \/ EnqueueShutdown
    \/ RecvShutdown
    \/ RecvSubmit
    \/ ExtractTask
    \/ RecvParsed
    \/ Claim
    \/ LockLookup
    \/ Lookup
    \/ Fetch
    \/ LockStore
    \/ Store
    \/ Post
    \/ Trigger
    \/ Tick

Spec == Init /\ [][Next]_vars

\* the steps of the thread that runs the receive loop
LoopStep ==
    \/ RecvShutdown
    \/ RecvSubmit
    \/ RecvParsed
    \/ Claim
    \/ LockLookup
    \/ Lookup
    \/ Fetch
    \/ LockStore
    \/ Store
    \/ Post
    \/ Trigger

\* The loop thread and the workers keep running, the blocking HTTP client
\* answers or times out, and the trigger command ends.
FairSpec == Spec /\ WF_vars(LoopStep) /\ WF_vars(ExtractTask)

\* ----------------------------------------------- the extractor alone
ExtractInit ==
    /\ configuration \in ExtractConfigurations
    /\ InitState

\* a request with one of the extractor's payloads
ExtractSubmit == submit(ExtractBodies)

\* submissions arrive, are handed to workers and extracted
ExtractNext ==
    \/ ExtractSubmit
    \/ RecvSubmit
    \/ ExtractTask

ExtractSpec == ExtractInit /\ [][ExtractNext]_vars

\* ------------------------------------------------------------- claims
\* the keys (incident id, ric) of a list of rics
KeysOf(nr, rics) == {<<nr, rics[k].ric>> : k \in 1..Len(rics)}

KdowKey(nr) == <<nr, kdow_dummy_ric.ric>>

\* C1: for every incident id and ric code at most one alarm POST carrying
\* both is ever issued.
C1_AtMostOnePost ==
    \A i, j \in 1..Len(posts) :
        i # j => <<posts[i].einsatznrlst, posts[i].ric>> # <<posts[j].einsatznrlst, posts[j].ric>>

\* two records of incident E1, both containing the KdoW ric, have been
\* processed and the POST for that key was issued
C1_Witness ==
    /\ \E a, b \in 1..Len(claims) :
         /\ a < b
         /\ claims[a].einsatznrlst = "E1" /\ claims[b].einsatznrlst = "E1"
         /\ KdowKey("E1") \in KeysOf("E1", claims[a].record) \cap KeysOf("E1", claims[b].record)
         /\ {claims[a].id, claims[b].id} \subseteq processed
    /\ \E k \in 1..Len(posts) : <<posts[k].einsatznrlst, posts[k].ric>> = KdowKey("E1")

\* C2: a key is returned by at most one claim, and at most once by it: no
\* two claims whose records hold the same key both get it.
C2_ClaimedOnce ==
    \A a, b \in 1..Len(claims) :
      \A k \in 1..Len(claims[a].rics), l \in 1..Len(claims[b].rics) :
        (a # b \/ k # l) =>
            <<claims[a].einsatznrlst, claims[a].rics[k].ric>>
                # <<claims[b].einsatznrlst, claims[b].rics[l].ric>>

\* two claims ran on records that share a key; the first got it, the second
\* did not
C2_Witness ==
    \E a, b \in 1..Len(claims) :
        /\ a < b
        /\ claims[a].einsatznrlst = claims[b].einsatznrlst
        /\ \E key \in KeysOf(claims[a].einsatznrlst, claims[a].record)
                        \cap KeysOf(claims[b].einsatznrlst, claims[b].record) :
             /\ key \in KeysOf(claims[a].einsatznrlst, claims[a].rics)
             /\ key \notin KeysOf(claims[b].einsatznrlst, claims[b].rics)

\* C3: the set of registered keys only grows: no step removes a key.
C3_KnownOnlyGrows == [][known_rics \subseteq known_rics']_vars

\* the token fetch of a submit has failed, a later record has been claimed
\* since (with nothing new), and the keys that submit claimed are still
\* registered
C3_Witness ==
    /\ call.result = "none"
    /\ call.targets # <<>>
    /\ \E c \in 1..Len(claims) :
         /\ claims[c].id = call.id
         /\ KeysOf(claims[c].einsatznrlst, call.targets) \subseteq known_rics
         /\ c < Len(claims)

\* C4: a token handed out by get_api_token is younger than TOKEN_TTL at
\* that moment.
C4_HandedTokenYoung == handed.tok # 0 => handed.elapsed < TOKEN_TTL

\* a token was handed out from the cache when it was TickStep minutes old,
\* while the entry has since reached TOKEN_TTL
C4_Witness ==
    /\ handed.tok # 0
    /\ handed.elapsed = TickStep
    /\ TOKEN_CACHE[Standort].elapsed >= TOKEN_TTL

\* the entry get_api_token found was present and younger than 30 minutes
FoundYoung == call.cached.present /\ call.cached.elapsed < TOKEN_TTL

C5_Returned ==
    /\ call.fetches <= 1
    /\ call.result # "pending" =>
         IF FoundYoung
         THEN call.fetches = 0 /\ call.result = "some" /\ handed.tok = call.cached.tok
         ELSE call.fetches = 1
    /\ (call.result = "some" /\ ~FoundYoung) =>
         /\ handed.tok = tokensIssued
         /\ handed.tok # call.cached.tok
         /\ TOKEN_CACHE[Standort].present /\ TOKEN_CACHE[Standort].tok = handed.tok

C5_Stored ==
    (call.result = "pending" /\ call'.result = "some" /\ call'.fetches = 1) =>
        /\ TOKEN_CACHE'[Standort] = [present |-> TRUE, tok |-> tokensIssued, elapsed |-> 0]
        /\ api_token' = tokensIssued

\* C5: get_api_token with an entry younger than 30 minutes returns that
\* token without a GET; with no entry or an older one it sends exactly one
\* GET and, when that succeeds, stores the new token with the current time
\* and returns it.
C5_GetToken == []C5_Returned /\ [][C5_Stored]_vars

\* a stale entry was found, one GET was sent and its token replaced the entry
C5_Witness ==
    /\ call.result = "some"
    /\ call.cached.present /\ call.cached.elapsed >= TOKEN_TTL
    /\ call.fetches = 1
    /\ TOKEN_CACHE[Standort].tok = api_token
    /\ api_token # call.cached.tok

\* C6: when the credential fetch fails, get_api_token has sent one GET and
\* returns None, and the submit that asked issues no POST and appends no
\* line.
C6_FetchFailure ==
    call.result = "none" =>
        /\ call.fetches = 1
        /\ Len(posts) = call.postsAt
        /\ Len(submitted) = call.logAt
        /\ loopPc \notin {"lookup", "lookup_locked", "fetch", "store", "store_locked", "post"}

\* a submit that follows earlier POSTs has returned after a failed fetch
C6_Witness ==
    /\ call.result = "none"
    /\ call.postsAt > 0
    /\ loopPc = "trigger"

\* C7: a submit that holds a token issues one POST per ric of its list, in
\* list order, whatever the earlier POSTs resulted in.
C7_OnePostPerRic ==
    call.result = "some" =>
        LET n == Len(posts) - call.postsAt IN
        /\ n \in 0..Len(call.targets)
        /\ \A k \in 1..n :
             /\ posts[call.postsAt + k].id = call.id
             /\ posts[call.postsAt + k].ric = call.targets[k].ric
             /\ posts[call.postsAt + k].subRIC = call.targets[k].subric
        /\ loopPc = "post" => n = ricIdx - 1
        /\ loopPc # "post" => n = Len(call.targets)

\* a submit with two rics has ended; both POSTs were sent and both failed
C7_Witness ==
    /\ call.result = "some"
    /\ Len(call.targets) = 2
    /\ loopPc = "trigger"
    /\ call.postsAt = 0 /\ Len(posts) = 2
    /\ okPosts = 0

\* C10: a /submit request whose token is not the configured one is answered
\* with 401, whether or not its body is JSON, and sends no event.
C10_Unauthorized ==
    [][(requests' = requests + 1 /\ lastResp'.token # AuthToken) =>
          (lastResp'.status = 401 /\ queue' = queue)]_vars

\* a request with a wrong token and a well-formed body got 401
C10_Witness ==
    /\ lastResp.token = "wrong"
    /\ lastResp.json
    /\ lastResp.status = 401

\* a Shutdown event is waiting in the queue
ShutdownQueued == \E k \in 1..Len(queue) : queue[k].kind = "Shutdown"

IsPrefix(q, r) == Len(q) <= Len(r) /\ SubSeq(r, 1, Len(q)) = q

C8_ExitOnShutdown ==
    (loopPc = "recv" /\ queue # <<>> /\ Head(queue).kind = "Shutdown" /\ queue' = Tail(queue))
        => loopPc' = "exited"

C8_NoDequeueAfterExit ==
    loopPc = "exited" => (loopPc' = "exited" /\ IsPrefix(queue, queue') /\ tasks' \subseteq tasks)

C9_OnlyShutdownEnds ==
    /\ loopPc \in {"recv", "claim", "lookup", "lookup_locked", "fetch", "store",
                   "store_locked", "post", "trigger", "exited"}
    /\ loopPc = "exited" => (shutdownSent /\ ~ShutdownQueued)

\* the loop waits with nothing left to receive and every event it took is processed
C9_AllProcessed ==
    /\ loopPc = "recv"
    /\ queue = <<>>
    /\ tasks = {}
    /\ \A c \in 1..Len(claims) : claims[c].id \in processed

\* C9: no error of the extractor, the filter, the token cache or the
\* submission ends the loop: only Shutdown does, and unless the loop has
\* ended by Shutdown every event enqueued is eventually processed and the
\* loop is receiving again.
C9_ErrorsAbsorbed ==
    /\ []C9_OnlyShutdownEnds
    /\ <>[](loopPc = "exited" \/ C9_AllProcessed)

\* with an invalid regex_ort: a POST failed, a log write failed, the
\* trigger command failed, then the token fetch for a later event failed,
\* and the loop is receiving again with both events processed
C9_Witness ==
    /\ ~configuration.regex_ort.valid
    /\ okPosts < Len(posts)
    /\ Len(submitted) < okPosts
    /\ ~triggerOk
    /\ call.result = "none"
    /\ call.postsAt = Len(posts) /\ Len(posts) > 0
    /\ loopPc = "recv"
    /\ ~shutdownSent
    /\ Cardinality(processed) = 2

\* what one /submit request with the configured token does
C11_Response ==
    (requests' = requests + 1 /\ lastResp'.token = AuthToken) =>
        IF lastResp'.json
        THEN /\ lastResp'.status = 200
             /\ Len(queue') = Len(queue) + 1
             /\ SubSeq(queue', 1, Len(queue)) = queue
             /\ queue'[Len(queue')].kind = "Submit"
             /\ queue'[Len(queue')].id = requests'
        ELSE /\ lastResp'.status = 400
             /\ queue' = queue

\* no step of the pipeline changes a response that was given
C11_ResponseKept == requests' = requests => lastResp' = lastResp

\* C11: a request with the configured token gets 200 and one Submit event
\* when its body deserializes, 400 and no event when it does not; the
\* response is given when the event is sent and no later step of the
\* pipeline changes it.
C11_Acknowledged == [][C11_Response /\ C11_ResponseKept]_vars

\* the last request was answered 200, and the submit for its record has
\* since failed to get a token
C11_Witness ==
    /\ lastResp.token = AuthToken
    /\ lastResp.status = 200
    /\ call.id = requests
    /\ call.result = "none"

\* C12: every extractor run returns a record, whatever the submission, the
\* rule table and the configured patterns: no run ends without one.
C12_AlwaysReturns == panics = {}

\* with a regex_ort that Regex::new accepts, an extractor run has ended
\* without a record and nothing of that submission is in the queue
C12_Witness ==
    /\ configuration.regex_ort.valid
    /\ panics # {}
    /\ tasks = {}
    /\ \A k \in 1..Len(queue) : queue[k].kind = "Shutdown" \/ queue[k].id \notin panics

Segments(payload) == SplitComma(RicsSource(StripCR(payload.text)))

\* rule a matches the segment together with a rule whose text properly
\* contains the text of a
Dominated(a, token, rules) ==
    \E b \in 1..Len(rules) :
        /\ Contains(token, rules[b].text)
        /\ rules[b].text # rules[a].text
        /\ Contains(rules[b].text, rules[a].text)

\* C14: in whatever order the rules stand in the table, a rule that in every
\* segment it matches is matched together with a rule whose text contains
\* its own contributes no target to the record.
C14_MostSpecificOnly ==
    \A n \in 1..Len(runs) :
      LET r == runs[n]
          rules == configuration.rics
          segs == Segments(r.payload)
      IN  \A a \in 1..Len(rules) :
            LET matched == {k \in 1..Len(segs) : Contains(segs[k], rules[a].text)} IN
            (matched # {} /\ \A k \in matched : Dominated(a, segs[k], rules))
                => \A x \in 1..Len(r.record.rics) : r.record.rics[x].text # rules[a].text

\* with "Florian X 1" before "Florian X" in the table, the segment
\* "Florian X 1" gave the record a target for each of the two rules
C14_Witness ==
    \E n \in 1..Len(runs) :
        LET r == runs[n] IN
        /\ \E i, j \in 1..Len(configuration.rics) :
             /\ i < j
             /\ configuration.rics[i].text = <<"Florian", "X", "1">>
             /\ configuration.rics[j].text = <<"Florian", "X">>
        /\ \E x, y \in 1..Len(r.record.rics) :
             /\ r.record.rics[x].text = <<"Florian", "X", "1">>
             /\ r.record.rics[y].text = <<"Florian", "X">>

\* the elements of rec at the positions in idx, in the order of rec
RECURSIVE PickFrom(_, _, _)
PickFrom(rec, k, idx) ==
    IF k > Len(rec) THEN <<>>
    ELSE (IF k \in idx THEN <<rec[k]>> ELSE <<>>) \o PickFrom(rec, k + 1, idx)

\* the positions of rec whose key was not registered before and whose ric
\* code does not occur earlier in rec
NewFirst(before, nr, rec) ==
    {k \in 1..Len(rec) : /\ <<nr, rec[k].ric>> \notin before
                         /\ \A j \in 1..(k - 1) : rec[j].ric # rec[k].ric}

C15_ClaimStep ==
    (loopPc = "claim" /\ loopPc' # "claim") =>
        /\ Len(claims') = Len(claims) + 1
        /\ claims'[Len(claims')].rics
             = PickFrom(data.rics, 1, NewFirst(known_rics, data.einsatznrlst, data.rics))
        /\ known_rics' = known_rics \cup KeysOf(data.einsatznrlst, data.rics)

\* C15: a claim returns, in record order, the rics of the record whose key
\* was not registered before it, the first one only of each ric code, and
\* when it ends every ric code of the record is registered for the incident.
C15_ClaimResult == [][C15_ClaimStep]_vars

\* a record whose first two rics share the code on different sub-channels and
\* whose third key was registered before: the claim returned the first only
C15_Witness ==
    \E c \in 2..Len(claims) :
        /\ Len(claims[c].record) = 3
        /\ claims[c].record[1].ric = claims[c].record[2].ric
        /\ claims[c].record[1].subric # claims[c].record[2].subric
        /\ claims[c].rics = <<claims[c].record[1]>>
        /\ KeysOf(claims[c].einsatznrlst, claims[c].record) \subseteq known_rics

C16_EmptyClaimStep ==
    (loopPc = "claim" /\ loopPc' # "claim" /\ claims'[Len(claims')].rics = <<>>) =>
        /\ loopPc' = "recv"
        /\ data.id \in processed'
        /\ UNCHANGED <<TOKEN_CACHE, cacheLock, tokensIssued, call, api_token, handed,
                       posts, okPosts, submitted, triggers>>

\* C16: when the claim returns an empty list the record is finished with
\* that step: no token lookup or GET, no POST, no line appended, and
\* TOKEN_CACHE is left as it was.
C16_EmptyClaim == [][C16_EmptyClaimStep]_vars

\* a record with rics got an empty claim while a token is cached; the loop is
\* receiving again and the last submit call is still the earlier event's
C16_Witness ==
    /\ claims # <<>>
    /\ claims[Len(claims)].rics = <<>>
    /\ claims[Len(claims)].record # <<>>
    /\ claims[Len(claims)].id \in processed
    /\ call.id # claims[Len(claims)].id
    /\ TOKEN_CACHE[Standort].present
    /\ loopPc = "recv"

\* the loop takes the next event from the queue
Dequeue == RecvShutdown \/ RecvSubmit \/ RecvParsed

\* C17: while a submit is in its token GET or in an alarm POST with its log
\* append, an event waiting in the queue can be taken from it.
C17_QueueNotBlocked ==
    (loopPc \in {"fetch", "post"} /\ queue # <<>>) => ENABLED Dequeue

\* a submit for incident E1 is in its POSTs while the record of incident E2
\* waits at the head of the queue, and no step takes it
C17_Witness ==
    /\ loopPc = "post"
    /\ data.einsatznrlst = "E1"
    /\ queue # <<>>
    /\ Head(queue).kind = "Parsed"
    /\ Head(queue).data.einsatznrlst = "E2"
    /\ ~ENABLED Dequeue

\* C18: the TOKEN_CACHE mutex is held during the lookup and during the
\* store only; while the GET for a token is outstanding nobody holds it.
C18_LockNotHeldInFetch ==
    /\ loopPc = "fetch" => ~cacheLock
    /\ cacheLock <=> loopPc \in {"lookup_locked", "store_locked"}

\* the GET is outstanding after a lookup that found a stale entry, and the
\* mutex is free
C18_Witness ==
    /\ loopPc = "fetch"
    /\ call.cached.present
    /\ ~Fresh(call.cached)
    /\ ~cacheLock

\* the submissions whose extractor run has ended
Extracted == {runs[n].id : n \in 1..Len(runs)} \cup panics

\* the Normalized events with this id waiting in the queue
QueuedParsed(id) == {k \in 1..Len(queue) : queue[k].kind = "Parsed" /\ queue[k].id = id}

\* the claims made for the event with this id
ClaimsOf(id) == {c \in 1..Len(claims) : claims[c].id = id}

\* the event with this id was taken from the queue and not claimed yet
InHand(id) == data.id = id /\ loopPc = "claim"

\* C19: every submission whose extractor run has ended has exactly one
\* Normalized event: waiting in the queue, or taken from it once and claimed
\* once; none is dropped and none is processed twice.
C19_ExactlyOnce ==
    \A id \in Extracted :
        /\ Cardinality({n \in 1..Len(runs) : runs[n].id = id}) <= 1
        /\ Cardinality(QueuedParsed(id)) + Cardinality(ClaimsOf(id))
             + (IF InHand(id) THEN 1 ELSE 0) = 1

\* of two submissions one went through extractor, filter and submit once,
\* the extractor run of the other ended without any Normalized event
C19_Witness ==
    \E a, b \in 1..requests :
        /\ a \in panics
        /\ QueuedParsed(a) = {} /\ ClaimsOf(a) = {} /\ data.id # a
        /\ b \in processed
        /\ Cardinality(ClaimsOf(b)) = 1

\* how often the trigger command was run for the event with this id
TriggerCount(id) == Cardinality({k \in 1..Len(triggers) : triggers[k] = id})

\* the loop has left the event of the c-th claim behind
Finished(c) == c < Len(claims) \/ data.id # claims[c].id

C20_Counts ==
    \A c \in 1..Len(claims) :
        TriggerCount(claims[c].id) =
            IF configuration.simple_trigger /\ claims[c].rics # <<>> /\ Finished(c)
            THEN 1 ELSE 0

C20_TriggerStep ==
    triggers' # triggers =>
        /\ triggers' = Append(triggers, data.id)
        /\ claims[Len(claims)].id = data.id
        /\ call.id = data.id
        /\ \/ call.result = "none"
           \/ call.result = "some" /\ Len(posts) = call.postsAt + Len(call.targets)
        /\ posts' = posts

\* C20: with a trigger command configured it is run once for every event
\* whose claim was not empty, after the claim and after submit has returned
\* (with or without a token, whatever the POSTs gave), and never for an
\* event whose claim was empty; without one it is never run.
C20_ClaimSubmitTrigger == []C20_Counts /\ [][C20_TriggerStep]_vars

\* the trigger ran once for an event whose submit got no token and not at
\* all for a later event whose claim was empty
C20_Witness ==
    /\ configuration.simple_trigger
    /\ Len(claims) = 2
    /\ claims[1].rics # <<>>
    /\ claims[2].rics = <<>>
    /\ call.id = claims[1].id /\ call.result = "none"
    /\ triggers = <<claims[1].id>>
    /\ {claims[1].id, claims[2].id} \subseteq processed

\* C21: as long as no append to the submitted file fails, the file has as
\* many lines as alarm POSTs were answered with a success status: a success
\* appends one line with the incident id and the keyword of the record, a
\* failed POST or a failed token fetch appends none.
C21_Count == Len(submitted) + appendErrors = okPosts

C21_PostStep ==
    /\ okPosts' \in {okPosts, okPosts + 1}
    /\ okPosts' = okPosts => submitted' = submitted /\ appendErrors' = appendErrors
    /\ okPosts' = okPosts + 1 /\ appendErrors' = appendErrors =>
          submitted' = Append(submitted, [einsatznrlst |-> data.einsatznrlst,
                                          einsatzstichwort |-> data.einsatzstichwort])

C21_SubmittedLog == []C21_Count /\ [][C21_PostStep]_vars

\* two POSTs were answered with success and at least one was not, no append
\* failed, and the file has the two lines of the successes
C21_Witness ==
    /\ okPosts = 2
    /\ Len(posts) > 2
    /\ appendErrors = 0
    /\ Len(submitted) = 2
    /\ \A k \in 1..2 : \E i \in 1..Len(posts) :
          posts[i].einsatznrlst = submitted[k].einsatznrlst

\* the target a rule contributes: its text, its code padded, its sub-channel
RuleTarget(rule) == [text |-> rule.text, ric |-> Pad7(rule.ric), subric |-> rule.subric]

\* the targets of the rule table and the four group fallback targets
RuleTargets == {RuleTarget(configuration.rics[k]) : k \in 1..Len(configuration.rics)}
AbtTargets == {abt_dummy_ric(n) : n \in 1..4}

\* the text has the vehicle-list marker
HasVehicleList(payload) == InSeq("Einsatzmittel:", payload.text)

\* C22: every record the extractor returns has the command-vehicle target
\* (code 0999995) exactly once, after all targets that come from rules and
\* before the group fallback targets, for every text, rule order and pattern.
C22_KdowOnce ==
    \A n \in 1..Len(runs) :
      LET rics == runs[n].record.rics IN
      /\ Cardinality({p \in 1..Len(rics) : rics[p] = kdow_dummy_ric}) = 1
      /\ \E p \in 1..Len(rics) :
           /\ rics[p] = kdow_dummy_ric
           /\ rics[p].ric = <<0, 9, 9, 9, 9, 9, 5>>
           /\ \A j \in 1..(p - 1) : rics[j] \in RuleTargets
           /\ \A j \in (p + 1)..Len(rics) : rics[j] \in AbtTargets

\* under a city pattern that does not compile, one record came from a text
\* without vehicle list and holds the command-vehicle target alone, another
\* has it between a rule's target and a group fallback target
C22_Witness ==
    /\ ~configuration.regex_ort.valid
    /\ \E n, m \in 1..Len(runs) :
         /\ ~HasVehicleList(runs[n].payload)
         /\ runs[n].record.rics = <<kdow_dummy_ric>>
         /\ \E p \in 2..(Len(runs[m].record.rics) - 1) :
              /\ runs[m].record.rics[p] = kdow_dummy_ric
              /\ runs[m].record.rics[p - 1] \in RuleTargets
              /\ runs[m].record.rics[p + 1] \in AbtTargets

\* some segment of the vehicle list contains the group marker k
MarkerInList(payload, k) ==
    \E i \in 1..Len(Segments(payload)) : Contains(Segments(payload)[i], UWMarker(k))

\* the segments of the vehicle list that contain the group marker k
MarkerSegments(payload, k) ==
    {i \in 1..Len(Segments(payload)) : Contains(Segments(payload)[i], UWMarker(k))}

\* C23: for each group marker k in 1..4 the k-th group fallback target is in
\* the returned list exactly when some segment of the vehicle list contains
\* the marker, and then once, however many segments contain it.
C23_GroupFallback ==
    \A n \in 1..Len(runs) : \A k \in 1..4 :
      LET rics == runs[n].record.rics
          at == {p \in 1..Len(rics) : rics[p] = abt_dummy_ric(k)}
      IN  /\ at # {} <=> MarkerInList(runs[n].payload, k)
          /\ Cardinality(at) <= 1

\* one record came from a list with marker 1 in two segments and marker 3 in
\* a third and has both targets once; another came from a text with a marker
\* outside the vehicle list and has no group fallback target
C23_Witness ==
    \E n, m \in 1..Len(runs) :
        /\ Cardinality(MarkerSegments(runs[n].payload, 1)) = 2
        /\ MarkerInList(runs[n].payload, 3)
        /\ InSeq(abt_dummy_ric(1), runs[n].record.rics)
        /\ InSeq(abt_dummy_ric(3), runs[n].record.rics)
        /\ \E k \in 1..4 : Contains(runs[m].payload.text, UWMarker(k))
        /\ \A k \in 1..4 : ~InSeq(abt_dummy_ric(k), runs[m].record.rics)

\* the lines of the text that match a field pattern
MatchingLines(re, payload) ==
    {k \in 1..Len(Lines(StripCR(payload.text))) :
        re.valid /\ InSeq(re.key, Lines(StripCR(payload.text))[k])}

\* group 1 of the last matching line, empty when no line matches
LastMatchGroup(re, payload) ==
    LET ks == MatchingLines(re, payload) IN
    IF ks = {} THEN <<>>
    ELSE Captures(re, Lines(StripCR(payload.text))[CHOOSE k \in ks : \A j \in ks : j <= k])[1]

\* C24 as stated: each of the fields city, district and site name of a
\* returned record is group 1 of the last line that matches the field's
\* pattern, and empty when no line matches.
C24_LastMatchGroup ==
    \A n \in 1..Len(runs) :
      /\ runs[n].record.ort = LastMatchGroup(configuration.regex_ort, runs[n].payload)
      /\ runs[n].record.ortsteil = LastMatchGroup(configuration.regex_ortsteil, runs[n].payload)
      /\ runs[n].record.objektname =
             LastMatchGroup(configuration.regex_objektname, runs[n].payload)

\* C24 amended: each of the three fields is group 1 of the last matching
\* line with leading and trailing white space removed, and empty when no
\* line matches.
C24_LastMatchTrimmed ==
    \A n \in 1..Len(runs) :
      /\ runs[n].record.ort = Trim(LastMatchGroup(configuration.regex_ort, runs[n].payload))
      /\ runs[n].record.ortsteil =
             Trim(LastMatchGroup(configuration.regex_ortsteil, runs[n].payload))
      /\ runs[n].record.objektname =
             Trim(LastMatchGroup(configuration.regex_objektname, runs[n].payload))

\* a record came from a text with two lines for the city: it has the second
\* one's group without the blanks around it, not the first one's, the
\* district of the one matching line, and no site name
C24_Witness ==
    \E n \in 1..Len(runs) :
      LET lines == Lines(StripCR(runs[n].payload.text))
          ks == MatchingLines(configuration.regex_ort, runs[n].payload)
      IN  /\ Cardinality(ks) = 2
          /\ \E a, b \in ks :
                /\ a < b
                /\ Trim(Captures(configuration.regex_ort, lines[a])[1])
                      # Trim(Captures(configuration.regex_ort, lines[b])[1])
                /\ Captures(configuration.regex_ort, lines[b])[1] # runs[n].record.ort
                /\ Trim(Captures(configuration.regex_ort, lines[b])[1]) = runs[n].record.ort
          /\ runs[n].record.ortsteil # <<>>
          /\ MatchingLines(configuration.regex_objektname, runs[n].payload) = {}
          /\ runs[n].record.objektname = <<>>

\* C25: a key is registered before anything is submitted for it and stays
\* registered whatever becomes of the token fetch and of the POST: every key
\* a claim returned and every key of a POST is registered, and a later
\* record of the same incident gets no POST for a key an earlier claim
\* returned.
C25_KeysStay ==
    /\ \A i \in 1..Len(claims) :
          KeysOf(claims[i].einsatznrlst, claims[i].rics) \subseteq known_rics
    /\ \A p \in 1..Len(posts) : <<posts[p].einsatznrlst, posts[p].ric>> \in known_rics
    /\ \A i, j \in 1..Len(claims) : \A p \in 1..Len(posts) :
          i < j /\ posts[p].id = claims[j].id =>
             <<posts[p].einsatznrlst, posts[p].ric>>
                 \notin KeysOf(claims[i].einsatznrlst, claims[i].rics)

\* every POST so far has failed, among them the one for the KdoW key of the
\* first record; a second record of that incident, which holds the KdoW ric
\* too, has been processed and no POST for the key was issued for it
C25_Witness ==
    /\ okPosts = 0
    /\ Len(claims) = 2
    /\ claims[1].einsatznrlst = claims[2].einsatznrlst
    /\ claims[2].id \in processed
    /\ InSeq(kdow_dummy_ric, claims[2].record)
    /\ \E p \in 1..Len(posts) :
          posts[p].id = claims[1].id /\ posts[p].ric = kdow_dummy_ric.ric
    /\ \A p \in 1..Len(posts) :
          posts[p].id = claims[2].id => posts[p].ric # kdow_dummy_ric.ric
    /\ KdowKey(claims[1].einsatznrlst) \in known_rics

\* the step is the store after a fetch that succeeded
StoreStep == loopPc = "store_locked" /\ loopPc' = "post"

\* the step is a fetch that failed
FailedFetchStep == loopPc = "fetch" /\ call'.result = "none"

\* C26: the token cache changes only by the store that follows a successful
\* fetch, and only in the entry of the site asked for; a failed fetch leaves
\* every entry, a stale one of the same site too, as it was; no entry is ever
\* removed.  (The age of an entry grows as time passes; its token and its
\* time of storing do not.)
C26_CacheStep ==
    /\ DOMAIN TOKEN_CACHE' = DOMAIN TOKEN_CACHE
    /\ FailedFetchStep => TOKEN_CACHE' = TOKEN_CACHE
    /\ \A s \in DOMAIN TOKEN_CACHE :
         /\ TOKEN_CACHE[s].present => TOKEN_CACHE'[s].present
         /\ \/ TOKEN_CACHE'[s] = TOKEN_CACHE[s]
            \/ /\ TOKEN_CACHE'[s].present = TOKEN_CACHE[s].present
               /\ TOKEN_CACHE'[s].tok = TOKEN_CACHE[s].tok
               /\ TOKEN_CACHE'[s].elapsed > TOKEN_CACHE[s].elapsed
               /\ loopPc' = loopPc
            \/ /\ StoreStep
               /\ s = Standort
               /\ call.fetches = 1
               /\ call.result = "pending"
               /\ TOKEN_CACHE'[s] = [present |-> TRUE, tok |-> tokensIssued, elapsed |-> 0]
               /\ tokensIssued # TOKEN_CACHE[s].tok

C26_CacheFrame == [][C26_CacheStep]_vars

\* get_api_token found a stale entry of the site, its fetch failed, and the
\* entry is still in the cache with its token and its age
C26_Witness ==
    /\ call.result = "none"
    /\ call.cached.present
    /\ ~Fresh(call.cached)
    /\ TOKEN_CACHE[Standort] = call.cached
    /\ loopPc = "trigger"

\* C27: a submit call asks get_api_token at most once, so it sends at most
\* one GET, and every POST of the call carries the token it got then; no
\* POST looks at the cache or at the age of the token again, also when the
\* token is TOKEN_TTL old or older by then.
C27_OneLookup ==
    /\ call.lookups <= 1
    /\ call.fetches <= 1
    /\ \A i, j \in 1..Len(posts) : posts[i].id = posts[j].id => posts[i].token = posts[j].token
    /\ \A p \in 1..Len(posts) : posts[p].id = call.id => posts[p].token = handed.tok

C27_PostStep ==
    Len(posts') = Len(posts) + 1 =>
        /\ posts'[Len(posts')].token = api_token
        /\ api_token = handed.tok
        /\ api_token' = api_token
        /\ call'.lookups = call.lookups
        /\ call'.fetches = call.fetches
        /\ TOKEN_CACHE' = TOKEN_CACHE

C27_OneTokenPerCall == []C27_OneLookup /\ [][C27_PostStep]_vars

\* a submit call got a newly fetched token, has issued at least two POSTs,
\* and one of them was issued when the token was TOKEN_TTL old
C27_Witness ==
    /\ call.lookups = 1
    /\ call.fetches = 1
    /\ handed.elapsed = 0
    /\ call.agedPost
    /\ Len(posts) >= call.postsAt + 2
    /\ \A p \in (call.postsAt + 1)..Len(posts) : posts[p].token = handed.tok

\* no key of the incident is registered
Unregistered(nr) == \A key \in known_rics : key[1] # nr

\* C28: the claim on the first record of an incident, when no key of it is
\* registered, returns a list that is not empty and holds the KdoW target,
\* so submit is called for it; an empty claim happens only for an incident
\* that an earlier claim was made for.
C28_FirstClaims ==
    \A i \in 1..Len(claims) :
      /\ (\A j \in 1..(i - 1) : claims[j].einsatznrlst # claims[i].einsatznrlst)
            => InSeq(kdow_dummy_ric, claims[i].rics)
      /\ claims[i].rics = <<>>
            => \E j \in 1..(i - 1) : /\ claims[j].einsatznrlst = claims[i].einsatznrlst
                                      /\ claims[j].rics # <<>>

C28_ClaimStep ==
    Len(claims') = Len(claims) + 1 /\ Unregistered(data.einsatznrlst) =>
        /\ loopPc' = "lookup"
        /\ call'.id = data.id
        /\ InSeq(kdow_dummy_ric, call'.targets)
        /\ claims'[Len(claims')].rics = call'.targets

C28_FirstClaimSubmits == []C28_FirstClaims /\ [][C28_ClaimStep]_vars

\* the first record of an incident came from a text without vehicle list:
\* its claim is the KdoW target alone and a POST was issued for it; the
\* second record of the incident got an empty claim
C28_Witness ==
    /\ Len(claims) = 2
    /\ claims[1].record = <<kdow_dummy_ric>>
    /\ claims[1].rics = <<kdow_dummy_ric>>
    /\ claims[2].einsatznrlst = claims[1].einsatznrlst
    /\ claims[2].rics = <<>>
    /\ \E p \in 1..Len(posts) : posts[p].id = claims[1].id

====
